---------------------------- MODULE Spec2Model ----------------------------
(***************************************************************************)
(* Traktor Kontrol X1 driver (src/src/lib.rs): the device session          *)
(* (TraktorX1), the input decoder (X1State) and the LED writer             *)
(* (LedWriter), over a USB transport whose bulk transfers succeed, time    *)
(* out or fail.                                                            *)
(*                                                                         *)
(* Rust arrays are functions over 0..N-1, so that every index below is the *)
(* index the source writes.  Option<T> is a sequence of length 0 or 1.     *)
(***************************************************************************)
EXTENDS Integers, Sequences, FiniteSets, TLC

VARIABLES
    wstate,   \* per LedWriter value: "none" | "open" | "confirm" (inside write(), bulk write done)
    leds,     \* per LedWriter value: its HashMap<Button, u8>
    calls,    \* history: the set_led calls a writer received since LedWriter::new
    wop,      \* per LedWriter value: number of its write() operation, 0 before write()
    log,      \* history: the bulk transfers issued on the device handle, in order
    ret       \* what the most recently returned operation returned

vars == <<wstate, leds, calls, wop, log, ret>>

\* ------------------------------------------------------------ bounds
MaxWriters   == 2   \* LedWriter values the program may try to hold at once
MaxCalls     == 3   \* set_led calls on one writer
MaxTransfers == 4   \* bulk transfers in one run

\* ------------------------------------------------------------ constants
LED_MAX                == 127
WRITE_ENDPOINT         == 1
WRITE_CONFIRM_ENDPOINT == 129
READ_ENDPOINT          == 132
REPORT_LEN             == 24
OUTPUT_LEN             == 32
CONFIRM_LEN            == 1
REPORT_TAG             == 12

Byte == 0..255

\* ------------------------------------------------------------ enums
FxButton   == {"On", "Button1", "Button2", "Button3"}
DeckButton == {"Browse", "FX1", "FX2", "Loop", "In", "Out", "BeatBackward",
               "BeatForward", "Cue", "Cup", "Play", "Sync"}
Button     == {<<"Shift">>, <<"Hotcue">>}
                \cup ({"FX1", "FX2"} \X FxButton)
                \cup ({"DeckA", "DeckB"} \X DeckButton)
FxKnob     == {"DryWet", "Param1", "Param2", "Param3"}
Knob       == {"FX1", "FX2"} \X FxKnob

\* rusb::Error values a bulk transfer can fail with
UsbError   == {"Timeout", "NoDevice", "Pipe"}

\* ------------------------------------------------------------ codec
\* bin[i] = (hex >> i) & 1    (hex2binMSB: the bits in the opposite order)
hex2binMSB(hex) == [i \in 0..7 |-> (hex \div 2^(7 - i)) % 2]
hex2bin(hex) == [i \in 0..7 |-> (hex \div 2^i) % 2]

\* u16::from_be_bytes([c1, c2])    (from_le_bytes: the bytes swapped)
from_le_bytes(c1, c2) == (c2 * 256 + c1) % 65536
from_be_bytes(c1, c2) == (c1 * 256 + c2) % 65536

\* on.min(LED_MAX)    (NoClamp: the intensity as given)
NoClamp(on) == on
Clamp(on) == IF on < LED_MAX THEN on ELSE LED_MAX

\* ------------------------------------------------------------ X1State
X1State_new(buffer) ==
    LET bin_0 == hex2bin(buffer[1])
        bin_1 == hex2bin(buffer[2])
        bin_2 == hex2bin(buffer[3])
        bin_3 == hex2bin(buffer[4])
        bin_4 == hex2bin(buffer[5])
    IN  [ button_bits |-> [g \in 0..4 |->
                             CASE g = 0 -> bin_0 [] g = 1 -> bin_1 [] g = 2 -> bin_2
                               [] g = 3 -> bin_3 [] g = 4 -> bin_4],
          knob_bytes  |-> [k \in 0..7 |->
                             CASE k = 0 -> <<buffer[16], buffer[17]>>
                               [] k = 1 -> <<buffer[20], buffer[21]>>
                               [] k = 2 -> <<buffer[22], buffer[23]>>
                               [] k = 3 -> <<buffer[18], buffer[19]>>
                               [] k = 4 -> <<buffer[12], buffer[13]>>
                               [] k = 5 -> <<buffer[10], buffer[11]>>
                               [] k = 6 -> <<buffer[8], buffer[9]>>
                               [] k = 7 -> <<buffer[14], buffer[15]>>] ]

\* the match of is_button_pressed: Button -> (status byte index, bit)
ButtonAddress(button) ==
    CASE button = <<"Shift">>                 -> <<4, 4>>
      [] button = <<"Hotcue">>                -> <<4, 7>>
      [] button = <<"FX1", "On">>             -> <<3, 4>>
      [] button = <<"FX1", "Button1">>        -> <<3, 5>>
      [] button = <<"FX1", "Button2">>        -> <<3, 6>>
      [] button = <<"FX1", "Button3">>        -> <<3, 7>>
      [] button = <<"FX2", "On">>             -> <<4, 0>>
      [] button = <<"FX2", "Button1">>        -> <<4, 1>>
      [] button = <<"FX2", "Button2">>        -> <<4, 2>>
      [] button = <<"FX2", "Button3">>        -> <<4, 3>>
      [] button = <<"DeckA", "Browse">>       -> <<3, 0>>
      [] button = <<"DeckA", "FX1">>          -> <<1, 1>>
      [] button = <<"DeckA", "FX2">>          -> <<1, 0>>
      [] button = <<"DeckA", "Loop">>         -> <<3, 2>>
      [] button = <<"DeckA", "In">>           -> <<2, 4>>
      [] button = <<"DeckA", "Out">>          -> <<0, 3>>
      [] button = <<"DeckA", "BeatBackward">> -> <<0, 2>>
      [] button = <<"DeckA", "BeatForward">>  -> <<2, 5>>
      [] button = <<"DeckA", "Cue">>          -> <<0, 1>>
      [] button = <<"DeckA", "Cup">>          -> <<2, 6>>
      [] button = <<"DeckA", "Play">>         -> <<0, 0>>
      [] button = <<"DeckA", "Sync">>         -> <<2, 7>>
      [] button = <<"DeckB", "Browse">>       -> <<3, 1>>
      [] button = <<"DeckB", "FX1">>          -> <<4, 6>>
      [] button = <<"DeckB", "FX2">>          -> <<4, 5>>
      [] button = <<"DeckB", "Loop">>         -> <<3, 3>>
      [] button = <<"DeckB", "In">>           -> <<1, 4>>
      [] button = <<"DeckB", "Out">>          -> <<2, 3>>
      [] button = <<"DeckB", "BeatBackward">> -> <<2, 2>>
      [] button = <<"DeckB", "BeatForward">>  -> <<1, 5>>
      [] button = <<"DeckB", "Cue">>          -> <<2, 1>>
      [] button = <<"DeckB", "Cup">>          -> <<1, 6>>
      [] button = <<"DeckB", "Play">>         -> <<2, 0>>
      [] button = <<"DeckB", "Sync">>         -> <<1, 7>>

is_button_pressed(self, button) ==
    LET address == ButtonAddress(button)
    IN  self.button_bits[address[1]][address[2]] > 0

\* the match of read_knob: Knob -> index into knob_bytes
KnobIndex(knob) ==
    CASE knob = <<"FX1", "DryWet">> -> 0
      [] knob = <<"FX1", "Param1">> -> 1
      [] knob = <<"FX1", "Param2">> -> 2
      [] knob = <<"FX1", "Param3">> -> 3
      [] knob = <<"FX2", "DryWet">> -> 4
      [] knob = <<"FX2", "Param1">> -> 5
      [] knob = <<"FX2", "Param2">> -> 6
      [] knob = <<"FX2", "Param3">> -> 7

read_knob(self, knob) ==
    LET c == self.knob_bytes[KnobIndex(knob)]
    IN  from_be_bytes(c[1], c[2])


\* ------------------------------------------------------------ LedWriter
WriterIds == 1..MaxWriters

\* HashMap::new()
EmptyMap == [x \in {} |-> 0]

\* HashMap::insert(button, on): the entry for button is replaced
\* (InsertIfAbsent: an existing entry is kept)
InsertIfAbsent(m, button, on) ==
    [x \in DOMAIN m \cup {button} |-> IF x \in DOMAIN m THEN m[x] ELSE on]
HashMapInsert(m, button, on) ==
    [x \in DOMAIN m \cup {button} |-> IF x = button THEN on ELSE m[x]]

\* the match of write: Button -> Some(offset), or None for `_ => continue`
LedAddress(button) ==
    CASE button = <<"Shift">>                 -> <<29>>
      [] button = <<"Hotcue">>                -> <<30>>
      [] button = <<"FX1", "On">>             -> <<8>>
      [] button = <<"FX1", "Button1">>        -> <<7>>
      [] button = <<"FX1", "Button2">>        -> <<6>>
      [] button = <<"FX1", "Button3">>        -> <<5>>
      [] button = <<"FX2", "On">>             -> <<4>>
      [] button = <<"FX2", "Button1">>        -> <<3>>
      [] button = <<"FX2", "Button2">>        -> <<2>>
      [] button = <<"FX2", "Button3">>        -> <<1>>
      [] button = <<"DeckA", "FX1">>          -> <<25>>
      [] button = <<"DeckA", "FX2">>          -> <<26>>
      [] button = <<"DeckA", "In">>           -> <<18>>
      [] button = <<"DeckA", "Out">>          -> <<17>>
      [] button = <<"DeckA", "BeatBackward">> -> <<20>>
      [] button = <<"DeckA", "BeatForward">>  -> <<19>>
      [] button = <<"DeckA", "Cue">>          -> <<22>>
      [] button = <<"DeckA", "Cup">>          -> <<21>>
      [] button = <<"DeckA", "Play">>         -> <<24>>
      [] button = <<"DeckA", "Sync">>         -> <<23>>
      [] button = <<"DeckB", "FX1">>          -> <<27>>
      [] button = <<"DeckB", "FX2">>          -> <<28>>
      [] button = <<"DeckB", "In">>           -> <<16>>
      [] button = <<"DeckB", "Out">>          -> <<15>>
      [] button = <<"DeckB", "BeatBackward">> -> <<14>>
      [] button = <<"DeckB", "BeatForward">>  -> <<13>>
      [] button = <<"DeckB", "Cue">>          -> <<12>>
      [] button = <<"DeckB", "Cup">>          -> <<11>>
      [] button = <<"DeckB", "Play">>         -> <<10>>
      [] button = <<"DeckB", "Sync">>         -> <<9>>
      [] OTHER                                -> <<>>

\* the buffers the write endpoint has been handed so far, in order
WrittenBuffers ==
    LET WriteAt(i) == log[i].ep = WRITE_ENDPOINT
        idx == {i \in DOMAIN log : WriteAt(i)}
        RECURSIVE Collect(_)
        Collect(i) == IF i > Len(log) THEN <<>>
                      ELSE IF i \in idx THEN <<log[i].data>> \o Collect(i + 1)
                      ELSE Collect(i + 1)
    IN  Collect(1)

\* let mut buffer = [0u8; 32]    (StaleBuffer: the buffer of the previous write)
StaleBuffer ==
    IF WrittenBuffers = <<>> THEN [i \in 0..(OUTPUT_LEN - 1) |-> 0]
    ELSE WrittenBuffers[Len(WrittenBuffers)]
FreshBuffer == [i \in 0..(OUTPUT_LEN - 1) |-> 0]

\* for (button, on) in self.leds { ... buffer[address] = on.min(LED_MAX) },
\* in whatever order the map iterates
RECURSIVE WriteLoop(_, _, _)
WriteLoop(buffer, m, todo) ==
    IF todo = {} THEN buffer
    ELSE LET button  == CHOOSE x \in todo : TRUE
             address == LedAddress(button)
             next    == IF address = <<>> THEN buffer
                        ELSE [buffer EXCEPT ![address[1]] = Clamp(m[button])]
         IN  WriteLoop(next, m, todo \ {button})

\* the 32-byte buffer write() hands to write_bulk
OutputReport(m) == WriteLoop([FreshBuffer EXCEPT ![0] = REPORT_TAG], m, DOMAIN m)

\* .map_err(|err| match err { Timeout => X1Error::Timeout, err => X1Error::Libusb(err) })
\* (MapErrGeneric: the `From<rusb::Error>` conversion a bare `?` would apply)
MapErrGeneric(err) == <<"Libusb", err>>
MapErr(err) == IF err = "Timeout" THEN <<"Timeout">> ELSE <<"Libusb", err>>

\* ------------------------------------------------------------ transport
\* one bulk transfer: the operation that issued it, the endpoint, the length of
\* the buffer handed over, how it ended, the number of bytes moved, and the
\* bytes: those handed over by a write, those delivered by a read
Transfer(op, ep, len, res, n, data) ==
    [op |-> op, ep |-> ep, len |-> len, res |-> res, n |-> n, data |-> data]

NoBytes == [i \in {} |-> 0]

\* operations are numbered in the order they are called
NextOp ==
    LET ops == {log[i].op : i \in DOMAIN log}
    IN  IF ops = {} THEN 1 ELSE (CHOOSE m \in ops : \A o \in ops : o <= m) + 1

Returned(op, fn, res, state) ==
    [op |-> op, fn |-> fn, ok |-> (res = "Ok"),
     err |-> IF res = "Ok" THEN <<>> ELSE MapErr(res), state |-> state]

NoState == <<>>

\* the handle is lent to no LedWriter: `&mut self` of writer() and write_leds(),
\* `&self` of read_state(), against the `&'a mut DeviceHandle` a LedWriter holds
\* (NoBorrowCheck: a LedWriter holding a shared `&'a DeviceHandle`)
NoBorrowCheck == TRUE
HandleNotBorrowed == \A w \in WriterIds : wstate[w] = "none"

Init ==
    /\ wstate = [w \in WriterIds |-> "none"]
    /\ leds   = [w \in WriterIds |-> EmptyMap]
    /\ calls  = [w \in WriterIds |-> <<>>]
    /\ wop    = [w \in WriterIds |-> 0]
    /\ log    = <<>>
    /\ ret    = [op |-> 0, fn |-> "none", ok |-> FALSE, err |-> <<>>, state |-> NoState]

\* TraktorX1::writer -> LedWriter::new
writer(w) ==
    /\ HandleNotBorrowed
    /\ wstate[w] = "none"
    /\ Len(log) + 2 <= MaxTransfers      \* the run is long enough for its write()
    /\ wstate' = [wstate EXCEPT ![w] = "open"]
    /\ leds'   = [leds EXCEPT ![w] = EmptyMap]
    /\ calls'  = [calls EXCEPT ![w] = <<>>]
    /\ UNCHANGED <<wop, log, ret>>

\* LedWriter::set_led
set_led(w, button, on) ==
    /\ wstate[w] = "open"
    /\ Len(calls[w]) < MaxCalls
    /\ leds'  = [leds EXCEPT ![w] = HashMapInsert(leds[w], button, on)]
    /\ calls' = [calls EXCEPT ![w] = Append(calls[w], <<button, on>>)]
    /\ UNCHANGED <<wstate, wop, log, ret>>

\* LedWriter dropped without write()
drop_writer(w) ==
    /\ wstate[w] = "open"
    /\ wstate' = [wstate EXCEPT ![w] = "none"]
    /\ leds'   = [leds EXCEPT ![w] = EmptyMap]
    /\ calls'  = [calls EXCEPT ![w] = <<>>]
    /\ UNCHANGED <<wop, log, ret>>

\* LedWriter::write up to the return of write_bulk: the report is built from
\* the map m and handed to the write endpoint; an error returns at once (`?`)
WriteBulkStep(w, m, callseq, res) ==
    LET op     == NextOp
        buffer == OutputReport(m)
    IN  /\ Len(log) + 2 <= MaxTransfers
        /\ log'  = Append(log, Transfer(op, WRITE_ENDPOINT, OUTPUT_LEN, res,
                                        IF res = "Ok" THEN OUTPUT_LEN ELSE 0, buffer))
        /\ leds' = [leds EXCEPT ![w] = EmptyMap]
        /\ IF res = "Ok"
           THEN /\ wstate' = [wstate EXCEPT ![w] = "confirm"]
                /\ wop'    = [wop EXCEPT ![w] = op]
                /\ calls'  = [calls EXCEPT ![w] = callseq]
                /\ UNCHANGED ret
           ELSE /\ wstate' = [wstate EXCEPT ![w] = "none"]
                /\ wop'    = [wop EXCEPT ![w] = 0]
                /\ calls'  = [calls EXCEPT ![w] = <<>>]
                /\ ret'    = Returned(op, "write", res, NoState)


\* LedWriter::write on a writer obtained from writer()
\* (write_NoConfirm: Ok(()) returned without the confirmation read;
\*  write_Retry: a failed write_bulk issued a second time)
write_NoConfirm(w, res) ==
    /\ wstate[w] = "open"
    /\ Len(log) + 2 <= MaxTransfers
    /\ log'    = Append(log, Transfer(NextOp, WRITE_ENDPOINT, OUTPUT_LEN, res,
                                      IF res = "Ok" THEN OUTPUT_LEN ELSE 0,
                                      OutputReport(leds[w])))
    /\ wstate' = [wstate EXCEPT ![w] = "none"]
    /\ leds'   = [leds EXCEPT ![w] = EmptyMap]
    /\ calls'  = [calls EXCEPT ![w] = <<>>]
    /\ ret'    = Returned(NextOp, "write", res, NoState)
    /\ UNCHANGED wop
write_Retry(w, res) ==
    /\ wstate[w] = "open"
    /\ IF res = "Ok"
       THEN WriteBulkStep(w, leds[w], calls[w], res)
       ELSE /\ Len(log) + 2 <= MaxTransfers
            /\ log'    = log \o << Transfer(NextOp, WRITE_ENDPOINT, OUTPUT_LEN, res, 0,
                                            OutputReport(leds[w])),
                                   Transfer(NextOp, WRITE_ENDPOINT, OUTPUT_LEN, res, 0,
                                            OutputReport(leds[w])) >>
            /\ wstate' = [wstate EXCEPT ![w] = "none"]
            /\ leds'   = [leds EXCEPT ![w] = EmptyMap]
            /\ calls'  = [calls EXCEPT ![w] = <<>>]
            /\ ret'    = Returned(NextOp, "write", res, NoState)
            /\ UNCHANGED wop
write(w, res) ==
    /\ wstate[w] = "open"
    /\ WriteBulkStep(w, leds[w], calls[w], res)

\* LedWriter::write from the read of the confirmation to its return; r is what
\* read_bulk does: [res |-> "Ok", data |-> the bytes delivered] or an error
write_confirm(w, r) ==
    /\ wstate[w] = "confirm"
    /\ log'    = Append(log, Transfer(wop[w], WRITE_CONFIRM_ENDPOINT, CONFIRM_LEN, r.res,
                                      Cardinality(DOMAIN r.data), r.data))
    /\ ret'    = Returned(wop[w], "write", r.res, NoState)
    /\ wstate' = [wstate EXCEPT ![w] = "none"]
    /\ wop'    = [wop EXCEPT ![w] = 0]
    /\ calls'  = [calls EXCEPT ![w] = <<>>]
    /\ UNCHANGED leds

\* for (button, on) in leds { writer.set_led(*button, *on) }
RECURSIVE SetAll(_, _)
SetAll(m, pairs) ==
    IF pairs = <<>> THEN m
    ELSE SetAll(HashMapInsert(m, Head(pairs)[1], Head(pairs)[2]), Tail(pairs))

\* TraktorX1::write_leds up to the return of write_bulk
write_leds(w, pairs, res) ==
    /\ HandleNotBorrowed
    /\ wstate[w] = "none"
    /\ WriteBulkStep(w, SetAll(EmptyMap, pairs), pairs, res)

\* let mut buffer = [0u8; 24]; read_bulk fills its first bytes with what arrived
ReadBuffer(data) ==
    [i \in 0..(REPORT_LEN - 1) |-> IF i \in DOMAIN data THEN data[i] ELSE 0]

\* TraktorX1::read_state; r is what read_bulk does
read_state(r) ==
    /\ HandleNotBorrowed
    /\ Len(log) < MaxTransfers
    /\ log' = Append(log, Transfer(NextOp, READ_ENDPOINT, REPORT_LEN, r.res,
                                   Cardinality(DOMAIN r.data), r.data))
    /\ ret' = Returned(NextOp, "read_state", r.res,
                       IF r.res = "Ok" THEN X1State_new(ReadBuffer(r.data)) ELSE NoState)
    /\ UNCHANGED <<wstate, leds, calls, wop>>


\* ------------------------------------------------------------ inputs
\* what read_bulk can do: deliver bytes, or fail with a rusb::Error
OkRead(data) == [res |-> "Ok", data |-> data]
ErrRead(e)   == [res |-> e, data |-> NoBytes]

BoundedSeq(S, n) == UNION {[1..k -> S] : k \in 0..n}

\* the first n bytes of a report: a short packet
Truncate(report, n) == [i \in 0..(n - 1) |-> report[i]]

\* the confirmation endpoint delivers its byte, or a zero-length packet, or fails
ConfirmReads ==
    {OkRead([i \in {0} |-> 1]), OkRead(NoBytes)} \cup {ErrRead(e) : e \in UsbError}

\* write_bulk moves the whole report or fails
WriteResults == {"Ok"} \cup UsbError

\* Shift held and FX1 dry/wet at 300
ShiftReport == [i \in 0..(REPORT_LEN - 1) |->
                  IF i = 5 THEN 16 ELSE IF i = 16 THEN 1 ELSE IF i = 17 THEN 44 ELSE 0]

\* the read endpoint delivers a whole report, a short packet, or fails
StateReads ==
    {OkRead(ShiftReport), OkRead(Truncate(ShiftReport, 6))}
        \cup {ErrRead(e) : e \in UsbError}

\* the set_led arguments the session protocol is explored with
ProtoLeds == {<< <<"Shift">>, 200 >>}

\* the iterators write_leds is handed
ProtoPairs == BoundedSeq(ProtoLeds, MaxCalls)

\* ------------------------------------------------------------ the session
Next ==
    \/ \E w \in WriterIds : writer(w)
    \/ \E w \in WriterIds, led \in ProtoLeds : set_led(w, led[1], led[2])
    \/ \E w \in WriterIds : drop_writer(w)
    \/ \E w \in WriterIds, res \in WriteResults : write(w, res)
    \/ \E w \in WriterIds, r \in ConfirmReads : write_confirm(w, r)
    \/ \E w \in WriterIds, res \in WriteResults :
          HandleNotBorrowed /\ \E pairs \in ProtoPairs : write_leds(w, pairs, res)
    \/ \E r \in StateReads : read_state(r)

Spec == Init /\ [][Next]_vars


\* ------------------------------------------------------------ LED cycles
\* writer / set_led / write cycles on a transport that works: an addressable
\* button twice, another addressable button and one without an LED, at an
\* intensity below and one above LED_MAX
LedInputs ==
    {<<"Shift">>, <<"FX1", "On">>, <<"DeckA", "Browse">>} \X {64, 200}

LedPairs == BoundedSeq(LedInputs, MaxCalls)

ConfirmByte == OkRead([i \in {0} |-> 1])

NextLeds ==
    \/ \E w \in WriterIds : writer(w)
    \/ \E w \in WriterIds, led \in LedInputs : set_led(w, led[1], led[2])
    \/ \E w \in WriterIds : drop_writer(w)
    \/ \E w \in WriterIds : write(w, "Ok")
    \/ \E w \in WriterIds : write_confirm(w, ConfirmByte)
    \/ \E w \in WriterIds :
          HandleNotBorrowed /\ \E pairs \in LedPairs : write_leds(w, pairs, "Ok")

SpecLeds == Init /\ [][NextLeds]_vars

\* ------------------------------------------------------------ one LED
\* the first writer of a session, one set_led with any button and any u8
NextEncode ==
    \/ \E w \in WriterIds : log = <<>> /\ writer(w)
    \/ \E w \in WriterIds :
          /\ wstate[w] = "open"
          /\ calls[w] = <<>>
          /\ \E button \in Button, on \in Byte : set_led(w, button, on)
    \/ \E w \in WriterIds : write(w, "Ok")
    \/ \E w \in WriterIds : write_confirm(w, ConfirmByte)

SpecEncode == Init /\ [][NextEncode]_vars

\* ------------------------------------------------------------ one report
\* reports with one status bit set, and reports with one byte pair set (one
\* byte of the pair any u8, the other a sample), the remaining bytes all 0 or
\* all 255
ByteSamples == {0, 1, 44, 127, 128, 255}

StatusReport(g, i, filler) ==
    [x \in 0..(REPORT_LEN - 1) |->
        IF x = g + 1 THEN 2^i ELSE IF x \in 1..5 THEN 0 ELSE filler]

PairReport(p, hi, lo, filler) ==
    [x \in 0..(REPORT_LEN - 1) |->
        IF x = p THEN hi ELSE IF x = p + 1 THEN lo ELSE filler]

NextDecode ==
    \/ /\ log = <<>>
       /\ \E g \in 0..4, i \in 0..7, f \in {0, 255} :
             read_state(OkRead(StatusReport(g, i, f)))
    \/ /\ log = <<>>
       /\ \E q \in 4..11, hi \in Byte, lo \in ByteSamples, f \in {0, 255} :
             \/ read_state(OkRead(PairReport(2 * q, hi, lo, f)))
             \/ read_state(OkRead(PairReport(2 * q, lo, hi, f)))

SpecDecode == Init /\ [][NextDecode]_vars


\* ------------------------------------------------------------ properties
\* the transfers operation number op issued, in order
OpTransfers(op) ==
    LET Mine(e) == e.op = op
    IN  SelectSeq(log, Mine)

\* the report the write() of writer w handed to the write endpoint
FlushBuffer(w) == OpTransfers(wop[w])[1].data

Min(a, b) == IF a < b THEN a ELSE b

\* C1: a write() that returned Ok issued exactly two transfers, first the
\* bulk write of a 32-byte buffer on the write endpoint, then the bulk read
\* into a 1-byte buffer on the confirmation endpoint, and both completed; as
\* long as a writer is between the two, its write() has returned nothing.
C1_WriteThenConfirm ==
    /\ (ret.fn = "write" /\ ret.ok) =>
          LET t == OpTransfers(ret.op)
          IN  /\ Len(t) = 2
              /\ t[1].ep = WRITE_ENDPOINT /\ t[1].len = 32 /\ t[1].res = "Ok"
              /\ t[2].ep = WRITE_CONFIRM_ENDPOINT /\ t[2].len = 1 /\ t[2].res = "Ok"
    /\ \A w \in WriterIds : wstate[w] = "confirm" => ret.op # wop[w]

C1_Witness ==
    /\ ret.fn = "write" /\ ret.ok
    /\ OpTransfers(ret.op)[1].data[29] = 127
    /\ OpTransfers(ret.op)[2].n = 1

\* C4: an operation whose transfer timed out returned X1Error::Timeout, and
\* one whose transfer failed otherwise returned X1Error::Libusb with that
\* error; this holds for the read of read_state, the bulk write of write()
\* and the confirmation read of write(), the latter after a completed write.
C4_ErrorKinds ==
    ret.fn # "none" =>
        LET t    == OpTransfers(ret.op)
            last == t[Len(t)]
        IN  /\ last.res = "Ok" <=> ret.ok
            /\ last.res = "Timeout" => ret.err = <<"Timeout">>
            /\ last.res \notin {"Ok", "Timeout"} => ret.err = <<"Libusb", last.res>>
            /\ \A i \in 1..(Len(t) - 1) : t[i].res = "Ok"

C4_Witness ==
    /\ ret.fn = "write" /\ ~ret.ok /\ ret.err = <<"Timeout">>
    /\ Len(OpTransfers(ret.op)) = 2
    /\ OpTransfers(ret.op)[1].res = "Ok" /\ OpTransfers(ret.op)[1].n = 32
    /\ OpTransfers(ret.op)[2].ep = WRITE_CONFIRM_ENDPOINT
    /\ OpTransfers(ret.op)[2].res = "Timeout"

\* C7: no operation issues a transfer twice on one endpoint; a write() whose
\* bulk write failed issued that one transfer only and returned its error; a
\* read_state issued one transfer only and, when it failed, returned its
\* error and no snapshot.
C7_NoRetry ==
    /\ \A i, j \in DOMAIN log :
          (log[i].op = log[j].op /\ log[i].ep = log[j].ep) => i = j
    /\ ret.fn # "none" =>
          LET t == OpTransfers(ret.op)
          IN  /\ (ret.fn = "write" /\ t[1].res # "Ok") =>
                    /\ Len(t) = 1
                    /\ t[1].ep = WRITE_ENDPOINT
                    /\ ~ret.ok
                    /\ ret.err = IF t[1].res = "Timeout" THEN <<"Timeout">>
                                 ELSE <<"Libusb", t[1].res>>
              /\ ret.fn = "read_state" =>
                    /\ Len(t) = 1
                    /\ t[1].ep = READ_ENDPOINT
                    /\ t[1].res # "Ok" =>
                          /\ ~ret.ok
                          /\ ret.state = NoState
                          /\ ret.err = IF t[1].res = "Timeout" THEN <<"Timeout">>
                                       ELSE <<"Libusb", t[1].res>>

C7_Witness ==
    /\ ret.fn = "write" /\ ~ret.ok
    /\ Len(OpTransfers(ret.op)) = 1
    /\ OpTransfers(ret.op)[1].ep = WRITE_ENDPOINT
    /\ OpTransfers(ret.op)[1].res = "NoDevice"
    /\ \E i \in DOMAIN log : log[i].ep = READ_ENDPOINT /\ log[i].res = "Timeout"

\* C8: at most one LedWriter exists at a time, and while one exists the only
\* transfers issued on the handle are its own: the bulk write of its write(),
\* and, once that is done, the confirmation read of the same write().
OneWriter == Cardinality({w \in WriterIds : wstate[w] # "none"}) <= 1

OwnTransfersOnly ==
    \A w \in WriterIds :
        (wstate[w] # "none" /\ log' # log) =>
            LET e == log'[Len(log')]
            IN  /\ Len(log') = Len(log) + 1
                /\ wstate[w] = "open" =>
                      /\ e.ep = WRITE_ENDPOINT
                      /\ wstate'[w] # "open"
                      /\ wstate'[w] = "confirm" => wop'[w] = e.op
                /\ wstate[w] = "confirm" =>
                      /\ e.ep = WRITE_CONFIRM_ENDPOINT
                      /\ e.op = wop[w]
                      /\ wstate'[w] = "none"

C8_ExclusiveWriter == []OneWriter /\ [][OwnTransfersOnly]_vars

C8_Witness ==
    \E w \in WriterIds :
        /\ wstate[w] = "confirm"
        /\ \E i \in DOMAIN log : log[i].ep = READ_ENDPOINT
        /\ log[Len(log)].ep = WRITE_ENDPOINT /\ log[Len(log)].op = wop[w]

\* C9: a read_state that returned a snapshot had exactly 24 bytes delivered
\* by its bulk read.
C9_WrongLengthIsError ==
    (ret.fn = "read_state" /\ ret.ok) => OpTransfers(ret.op)[1].n = 24


\* Table B as the specification prints it: Button -> output byte offset
TableB ==
    [b \in Button \ ({"DeckA", "DeckB"} \X {"Browse", "Loop"}) |->
        CASE b = <<"FX2", "Button3">>        -> 1
          [] b = <<"FX2", "Button2">>        -> 2
          [] b = <<"FX2", "Button1">>        -> 3
          [] b = <<"FX2", "On">>             -> 4
          [] b = <<"FX1", "Button3">>        -> 5
          [] b = <<"FX1", "Button2">>        -> 6
          [] b = <<"FX1", "Button1">>        -> 7
          [] b = <<"FX1", "On">>             -> 8
          [] b = <<"DeckB", "Sync">>         -> 9
          [] b = <<"DeckB", "Play">>         -> 10
          [] b = <<"DeckB", "Cup">>          -> 11
          [] b = <<"DeckB", "Cue">>          -> 12
          [] b = <<"DeckB", "BeatForward">>  -> 13
          [] b = <<"DeckB", "BeatBackward">> -> 14
          [] b = <<"DeckB", "Out">>          -> 15
          [] b = <<"DeckB", "In">>           -> 16
          [] b = <<"DeckA", "Out">>          -> 17
          [] b = <<"DeckA", "In">>           -> 18
          [] b = <<"DeckA", "BeatForward">>  -> 19
          [] b = <<"DeckA", "BeatBackward">> -> 20
          [] b = <<"DeckA", "Cup">>          -> 21
          [] b = <<"DeckA", "Cue">>          -> 22
          [] b = <<"DeckA", "Sync">>         -> 23
          [] b = <<"DeckA", "Play">>         -> 24
          [] b = <<"DeckA", "FX1">>          -> 25
          [] b = <<"DeckA", "FX2">>          -> 26
          [] b = <<"DeckB", "FX1">>          -> 27
          [] b = <<"DeckB", "FX2">>          -> 28
          [] b = <<"Shift">>                 -> 29
          [] b = <<"Hotcue">>                -> 30]

\* C2: the report written by the write() of a new writer that received one
\* set_led(button, v) is 32 bytes with byte 0 = 0x0C; with a Table B entry
\* for button, min(v, 127) stands at that offset and 0 at every other offset
\* 1..31; without one (DeckA/DeckB Browse and Loop) every offset 1..31 is 0.
C2_OneLedEncoded ==
    \A w \in WriterIds :
        (wstate[w] = "confirm" /\ Len(calls[w]) = 1) =>
            LET button == calls[w][1][1]
                v      == calls[w][1][2]
                buffer == FlushBuffer(w)
            IN  /\ DOMAIN buffer = 0..31
                /\ buffer[0] = 12
                /\ \A i \in 1..31 :
                      buffer[i] = IF button \in DOMAIN TableB /\ TableB[button] = i
                                  THEN Min(v, 127) ELSE 0

C2_Witness ==
    \E w \in WriterIds :
        /\ wstate[w] = "confirm"
        /\ calls[w] = << << <<"Shift">>, 200 >> >>
        /\ FlushBuffer(w)[29] = 127
        /\ FlushBuffer(w)[0] = 12

\* s without its element i
Without(s, i) == SubSeq(s, 1, i - 1) \o SubSeq(s, i + 1, Len(s))

\* C6: the report a write() writes is the report a writer would write that
\* received the same set_led calls less any one call that a later call for
\* the same button follows.
C6_LastWriteWins ==
    \A w \in WriterIds :
        wstate[w] = "confirm" =>
            \A i \in DOMAIN calls[w] :
                (\E j \in (i + 1)..Len(calls[w]) : calls[w][j][1] = calls[w][i][1]) =>
                    FlushBuffer(w) = OutputReport(SetAll(EmptyMap, Without(calls[w], i)))

C6_Witness ==
    \E w \in WriterIds :
        /\ wstate[w] = "confirm"
        /\ calls[w] = << << <<"Shift">>, 200 >>, << <<"FX1", "On">>, 64 >>,
                         << <<"Shift">>, 64 >> >>
        /\ FlushBuffer(w)[29] = 64
        /\ FlushBuffer(w)[8] = 64

\* the set_led calls of s that address offset i
Addressing(s, i) == {k \in DOMAIN s : LedAddress(s[k][1]) = <<i>>}

\* C10: whatever earlier writers of the session wrote, the report a write()
\* writes has 0x0C at offset 0 and, at each offset 1..31, 0 when no set_led
\* call on this writer addressed it and else the clamped intensity of the
\* last one that did.
C10_BuiltFresh ==
    \A w \in WriterIds :
        wstate[w] = "confirm" =>
            LET buffer == FlushBuffer(w)
            IN  /\ buffer[0] = 12
                /\ \A i \in 1..31 :
                      LET ks == Addressing(calls[w], i)
                      IN  buffer[i] =
                            IF ks = {} THEN 0
                            ELSE Min(calls[w][CHOOSE k \in ks : \A m \in ks : m <= k][2], 127)

C10_Witness ==
    \E w \in WriterIds :
        /\ wstate[w] = "confirm"
        /\ Len(WrittenBuffers) = 2
        /\ WrittenBuffers[1][29] = 127
        /\ WrittenBuffers[2][29] = 0
        /\ WrittenBuffers[2][8] = 64

\* Table A as the specification prints it: Button -> (group, bit)
TableA ==
    [b \in Button |->
        CASE b = <<"Shift">>                 -> <<4, 4>>
          [] b = <<"Hotcue">>                -> <<4, 7>>
          [] b = <<"FX1", "On">>             -> <<3, 4>>
          [] b = <<"FX1", "Button1">>        -> <<3, 5>>
          [] b = <<"FX1", "Button2">>        -> <<3, 6>>
          [] b = <<"FX1", "Button3">>        -> <<3, 7>>
          [] b = <<"FX2", "On">>             -> <<4, 0>>
          [] b = <<"FX2", "Button1">>        -> <<4, 1>>
          [] b = <<"FX2", "Button2">>        -> <<4, 2>>
          [] b = <<"FX2", "Button3">>        -> <<4, 3>>
          [] b = <<"DeckA", "Browse">>       -> <<3, 0>>
          [] b = <<"DeckA", "FX1">>          -> <<1, 1>>
          [] b = <<"DeckA", "FX2">>          -> <<1, 0>>
          [] b = <<"DeckA", "Loop">>         -> <<3, 2>>
          [] b = <<"DeckA", "In">>           -> <<2, 4>>
          [] b = <<"DeckA", "Out">>          -> <<0, 3>>
          [] b = <<"DeckA", "BeatBackward">> -> <<0, 2>>
          [] b = <<"DeckA", "BeatForward">>  -> <<2, 5>>
          [] b = <<"DeckA", "Cue">>          -> <<0, 1>>
          [] b = <<"DeckA", "Cup">>          -> <<2, 6>>
          [] b = <<"DeckA", "Play">>         -> <<0, 0>>
          [] b = <<"DeckA", "Sync">>         -> <<2, 7>>
          [] b = <<"DeckB", "Browse">>       -> <<3, 1>>
          [] b = <<"DeckB", "FX1">>          -> <<4, 6>>
          [] b = <<"DeckB", "FX2">>          -> <<4, 5>>
          [] b = <<"DeckB", "Loop">>         -> <<3, 3>>
          [] b = <<"DeckB", "In">>           -> <<1, 4>>
          [] b = <<"DeckB", "Out">>          -> <<2, 3>>
          [] b = <<"DeckB", "BeatBackward">> -> <<2, 2>>
          [] b = <<"DeckB", "BeatForward">>  -> <<1, 5>>
          [] b = <<"DeckB", "Cue">>          -> <<2, 1>>
          [] b = <<"DeckB", "Cup">>          -> <<1, 6>>
          [] b = <<"DeckB", "Play">>         -> <<2, 0>>
          [] b = <<"DeckB", "Sync">>         -> <<1, 7>>]

\* the 24 bytes the read of the last read_state delivered
LastReport == OpTransfers(ret.op)[1].data

\* report has bit i of status byte g + 1 set and no other status bit
OnlyBit(report, g, i) ==
    \A x \in 1..5 : report[x] = IF x = g + 1 THEN 2^i ELSE 0

\* C3: on the snapshot of a 24-byte report whose only set status bit is bit i
\* of the byte at offset g + 1, is_button_pressed is true of the buttons
\* Table A maps to (g, i), at most one, and false of every other button.
C3_SingleBitDecoded ==
    (ret.fn = "read_state" /\ ret.ok /\ OpTransfers(ret.op)[1].n = 24) =>
        \A g \in 0..4, i \in 0..7 :
            OnlyBit(LastReport, g, i) =>
                /\ \A b \in Button :
                      is_button_pressed(ret.state, b) <=> TableA[b] = <<g, i>>
                /\ Cardinality({b \in Button : is_button_pressed(ret.state, b)}) <= 1

C3_Witness ==
    /\ ret.fn = "read_state" /\ ret.ok
    /\ OnlyBit(LastReport, 2, 4)
    /\ is_button_pressed(ret.state, <<"DeckA", "In">>)
    /\ ~is_button_pressed(ret.state, <<"DeckB", "Out">>)

\* the offsets [high, low] the specification gives each knob
KnobOffsets ==
    [k \in Knob |->
        CASE k = <<"FX1", "DryWet">> -> <<16, 17>>
          [] k = <<"FX1", "Param1">> -> <<20, 21>>
          [] k = <<"FX1", "Param2">> -> <<22, 23>>
          [] k = <<"FX1", "Param3">> -> <<18, 19>>
          [] k = <<"FX2", "DryWet">> -> <<12, 13>>
          [] k = <<"FX2", "Param1">> -> <<10, 11>>
          [] k = <<"FX2", "Param2">> -> <<8, 9>>
          [] k = <<"FX2", "Param3">> -> <<14, 15>>]

\* C5: on the snapshot of a 24-byte report, read_knob of each knob is
\* high * 256 + low of the two report bytes at the knob's offsets, a value
\* in 0..65535.
C5_KnobBigEndian ==
    (ret.fn = "read_state" /\ ret.ok /\ OpTransfers(ret.op)[1].n = 24) =>
        \A k \in Knob :
            /\ read_knob(ret.state, k) =
                  LastReport[KnobOffsets[k][1]] * 256 + LastReport[KnobOffsets[k][2]]
            /\ read_knob(ret.state, k) \in 0..65535

C5_Witness ==
    /\ ret.fn = "read_state" /\ ret.ok
    /\ LastReport[16] = 1 /\ LastReport[17] = 44 /\ LastReport[18] = 255
    /\ read_knob(ret.state, <<"FX1", "DryWet">>) = 300

=============================================================================
